---- MODULE Spec2Model ----
(***************************************************************************)
(* Model of the Triton activation kernels of                               *)
(* src/triton_activations/functions.py.                                    *)
(*                                                                         *)
(* Every kernel has the same shape: a program instance (unit) reads its    *)
(* program id, derives BLOCK_SIZE consecutive offsets, masks them against  *)
(* n_elements, loads the masked lanes of x, applies the activation formula *)
(* lane by lane and stores the masked lanes to output.  Program instances  *)
(* of one launch run concurrently; the model interleaves their load,       *)
(* compute and store steps in every order.  A host launches the kernel     *)
(* over a grid of program ids, and may launch it a second time on the same *)
(* input with another BLOCK_SIZE.                                          *)
(*                                                                         *)
(* Floating point values are terms: <<"num", k>> is the float with the     *)
(* integer value k, and the transcendental functions (exp, log, tanh, erf, *)
(* sqrt) and the float operations whose result is not an integer are       *)
(* uninterpreted constructors, built in the order the source applies them. *)
(* Integer-valued arithmetic (maximum, abs, negation, subtraction of       *)
(* integers) is exact in float32 on the small values used and is computed. *)
(*                                                                         *)
(* program_id, BLOCK_SIZE, tl.arange and n_elements are 32-bit signed      *)
(* integers in Triton; the model keeps the two's-complement wrap-around    *)
(* with the width scaled down to IntBits bits.                             *)
(***************************************************************************)
EXTENDS Integers, Sequences, FiniteSets, TLC

\* ---------------------------------------------------------------- bounds
IntBits == 5
MaxN == 5
MaxShort == 2

\* ------------------------------------------------------- machine integers
RECURSIVE Pow2(_)
Pow2(k) == IF k = 0 THEN 1 ELSE 2 * Pow2(k - 1)

INT_MAX == Pow2(IntBits - 1) - 1

\* two's-complement wrap of a mathematical integer v >= -2^(IntBits-1)
Wrap(v) == ((v + Pow2(IntBits - 1)) % Pow2(IntBits)) - Pow2(IntBits - 1)

\* ------------------------------------------------------------ float terms
Num(k) == <<"num", k>>
Const(s) == <<"const", s>>
Uninit == <<"uninit">>

Max(a, b) == IF a >= b THEN a ELSE b
Abs(a) == IF a >= 0 THEN a ELSE -a

\* what a masked-off lane of tl.load may hold when no `other` is given
Undef == {Num(0), Num(7)}

\* ------------------------------------------------------------------ state
VARIABLES
    x,              \* input buffer: [0..n_elements-1 -> term]
    n_elements,
    kind,           \* which kernel is launched
    approximation,  \* gelu_activation_kernel's flag
    axis_ld,        \* softmax_activation_kernel's scalar
    BLOCK_SIZE,
    pids,           \* program ids of the launch
    output,         \* output buffer: [0..n_elements-1 -> term]
    pc,             \* pids -> "load" | "compute" | "store" | "done"
    offsets,        \* pids -> [0..BLOCK_SIZE-1 -> machine integer]
    mask,           \* pids -> [0..BLOCK_SIZE-1 -> BOOLEAN]
    xv,             \* pids -> the loaded block (local x)
    ov,             \* pids -> the computed block (local output)
    storeCount,     \* [0..n_elements-1 -> Nat]: stores received this launch
    oob,            \* offsets outside [0, n_elements) that were accessed
    launch,         \* 1 or 2
    prev_output,    \* output buffer of the first launch
    prev_BLOCK      \* BLOCK_SIZE of the first launch

vars == <<x, n_elements, kind, approximation, axis_ld, BLOCK_SIZE, pids, output,
          pc, offsets, mask, xv, ov, storeCount, oob, launch, prev_output, prev_BLOCK>>

Kinds == {"tanh", "relu", "softplus", "softsign", "sigmoid", "silu", "gelu", "softmax"}
AxisLds == {1, 2}
\* tl.arange admits powers of two only
BlockSizes == {1, 2, 4}
Indices == 0..(n_elements - 1)
Lanes(B) == 0..(B - 1)

\* ------------------------------------------------------- block partitioner
\* a stride one short of the block width: neighbouring blocks overlap
BlockStart_overlap(pid, B) == Wrap(pid * B - pid)

\* block_start = pid * BLOCK_SIZE
BlockStart(pid, B) == Wrap(pid * B)

\* the program id is not scaled by the block width
Offsets_unscaled(pid, B) == [lane \in Lanes(B) |-> Wrap(pid + lane)]

\* offsets = block_start + tl.arange(0, BLOCK_SIZE)
Offsets(pid, B) == [lane \in Lanes(B) |-> Wrap(BlockStart(pid, B) + lane)]

\* the bound is off by one, either way
MaskOf_short(offs, n) == [lane \in DOMAIN offs |-> offs[lane] < n - 1]
MaskOf_inclusive(offs, n) == [lane \in DOMAIN offs |-> offs[lane] <= n]

\* mask = offsets < n_elements
MaskOf(offs, n) == [lane \in DOMAIN offs |-> offs[lane] < n]

\* the host's grid: ceil(n / B) program ids
NumUnits(n, B) == (n + B - 1) \div B

\* --------------------------------------------------- activation formulas
\* output = tl.libdevice.tanh(x)
tanh_output(v) == <<"tanh", v>>

\* the maximum is left out
relu_output_identity(v) == v

\* output = tl.maximum(0, x)
relu_output(v) == Num(Max(0, v[2]))

\* output = tl.log(1 + tl.exp(x))
softplus_output(v) == <<"log", <<"add", Num(1), <<"exp", v>>>>>>

\* output = x / (tl.libdevice.abs(x) + 1)
softsign_output(v) == <<"div", v, Num(Abs(v[2]) + 1)>>

\* output = 1 / (1 + tl.exp(-x))
sigmoid_output(v) == <<"div", Num(1), <<"add", Num(1), <<"exp", Num(-v[2])>>>>>>

\* output = x * (1 / (1 + tl.exp(-x)))
silu_output(v) == <<"mul", v, <<"div", Num(1), <<"add", Num(1), <<"exp", Num(-v[2])>>>>>>>>

\* the two branches of gelu_activation_kernel
gelu_output(v, approx) ==
    IF approx = TRUE
    THEN <<"mul", <<"mul", Const("0.5"), v>>,
           <<"add", Num(1),
             <<"tanh", <<"mul", <<"sqrt", Const("2.0/3.141592653589793")>>,
                         <<"add", v, <<"mul", Const("0.044715"), Num(v[2] * v[2] * v[2])>>>>>>>>>>>>
    ELSE <<"mul", <<"mul", v, Const("0.5")>>,
           <<"add", Const("1.0"), <<"erf", <<"div", v, <<"sqrt", Const("2.0")>>>>>>>>>>

\* axis_ld itself is subtracted, not the maximum
softmax_output_nomax(v, a) ==
    LET xm == Num(v[2] - a)
        exp_x == <<"exp", xm>>
        sum_exp_x == <<"add", exp_x, Num(a)>>
    IN  <<"div", exp_x, sum_exp_x>>

\* max_x = max(x, axis_ld); x -= max_x; exp_x = exp(x);
\* sum_exp_x = exp_x + axis_ld; output = exp_x / sum_exp_x
softmax_output(v, a) ==
    LET max_x == Num(Max(v[2], a))
        xm == Num(v[2] - max_x[2])
        exp_x == <<"exp", xm>>
        sum_exp_x == <<"add", exp_x, Num(a)>>
    IN  <<"div", exp_x, sum_exp_x>>

\* the formula of the launched kernel, applied to one lane
Activation(v) ==
    CASE kind = "tanh" -> tanh_output(v)
      [] kind = "relu" -> relu_output(v)
      [] kind = "softplus" -> softplus_output(v)
      [] kind = "softsign" -> softsign_output(v)
      [] kind = "sigmoid" -> sigmoid_output(v)
      [] kind = "silu" -> silu_output(v)
      [] kind = "gelu" -> gelu_output(v, approximation)
      [] kind = "softmax" -> softmax_output(v, axis_ld)

\* ----------------------------------------------------------- masked I/O
InBounds(off) == off >= 0 /\ off < n_elements

\* the lanes of a block that tl.load / tl.store actually access
Accessed(offs, msk) == {lane \in DOMAIN offs : msk[lane]}

\* the buffer is indexed by the lane, not by the global offset
masked_load_local(buf, offs, msk, g) ==
    [lane \in DOMAIN offs |->
        IF msk[lane] /\ InBounds(offs[lane]) /\ InBounds(lane) THEN buf[lane] ELSE g[lane]]

\* x = tl.load(x_ptr + offsets, mask=mask): a lane whose mask is set reads
\* x_ptr[offset]; a masked-off lane, given no `other`, holds an unspecified
\* value, and so does a lane that read outside the buffer.  g supplies the
\* unspecified values.
masked_load(buf, offs, msk, g) ==
    [lane \in DOMAIN offs |->
        IF msk[lane] /\ InBounds(offs[lane]) THEN buf[offs[lane]] ELSE g[lane]]

\* tl.store(output_ptr + offsets, output, mask=mask): the buffer afterwards
masked_store(buf, offs, msk, vals) ==
    [i \in DOMAIN buf |->
        IF \E lane \in Accessed(offs, msk) : offs[lane] = i
        THEN vals[CHOOSE lane \in Accessed(offs, msk) : offs[lane] = i]
        ELSE buf[i]]

\* the result is written back through x_ptr as well
input_after_store_inplace(buf, offs, msk, vals) == masked_store(buf, offs, msk, vals)

\* what a kernel's store leaves in the input buffer: tl.store targets
\* output_ptr, and softmax's `x -= max_x` rebinds the loaded block only
input_after_store(buf, offs, msk, vals) == buf

\* offsets outside the buffer that an access with this mask touches
OutOfBounds(offs, msk) == {offs[lane] : lane \in {l \in Accessed(offs, msk) : ~InBounds(offs[l])}}

\* ---------------------------------------------------------------- inputs
InputValues == {Num(-1), Num(0), Num(1)}
Ramp(n) == [i \in 0..(n - 1) |-> Num(i - 2)]
ShortInputs == UNION {[0..(n - 1) -> InputValues] : n \in 0..MaxShort}
Inputs == ShortInputs \cup {Ramp(n) : n \in 0..MaxN}

Fresh(n) == [i \in 0..(n - 1) |-> Uninit]
Zeros(n) == [i \in 0..(n - 1) |-> 0]
NoBlock == [lane \in {} |-> 0]

\* the state right after the host launched the kernel on program ids P
Launched(P) ==
    /\ pids = P
    /\ pc = [p \in P |-> "load"]
    /\ offsets = [p \in P |-> NoBlock]
    /\ mask = [p \in P |-> NoBlock]
    /\ xv = [p \in P |-> NoBlock]
    /\ ov = [p \in P |-> NoBlock]

InitCommon(I) ==
    /\ x \in I
    /\ n_elements = Cardinality(DOMAIN x)
    /\ kind \in Kinds
    /\ approximation \in (IF kind = "gelu" THEN BOOLEAN ELSE {FALSE})
    /\ axis_ld \in (IF kind = "softmax" THEN AxisLds ELSE {0})
    /\ BLOCK_SIZE \in BlockSizes
    /\ output = Fresh(n_elements)
    /\ storeCount = Zeros(n_elements)
    /\ oob = {}
    /\ launch = 1
    /\ prev_output = Fresh(n_elements)
    /\ prev_BLOCK = 0

\* the dispatch loop: one program instance per id in [0, ceil(N / BLOCK_SIZE))
Init ==
    /\ InitCommon(Inputs)
    /\ Launched(0..(NumUnits(n_elements, BLOCK_SIZE) - 1))

\* ------------------------------------------------------- kernel steps
\* pid = tl.program_id(0) .. x = tl.load(x_ptr + offsets, mask=mask)
Load(p) ==
    /\ pc[p] = "load"
    /\ LET offs == Offsets(p, BLOCK_SIZE)
           msk == MaskOf(offs, n_elements)
       IN  /\ offsets' = [offsets EXCEPT ![p] = offs]
           /\ mask' = [mask EXCEPT ![p] = msk]
           /\ \E g \in [{lane \in Lanes(BLOCK_SIZE) : ~(msk[lane] /\ InBounds(offs[lane]))}
                         -> Undef] :
                 xv' = [xv EXCEPT ![p] = masked_load(x, offs, msk, g)]
           /\ oob' = oob \cup OutOfBounds(offs, msk)
    /\ pc' = [pc EXCEPT ![p] = "compute"]
    /\ UNCHANGED <<x, n_elements, kind, approximation, axis_ld, BLOCK_SIZE, pids,
                   output, ov, storeCount, launch, prev_output, prev_BLOCK>>

\* output = <formula>(x), lane by lane
Compute(p) ==
    /\ pc[p] = "compute"
    /\ ov' = [ov EXCEPT ![p] = [lane \in DOMAIN xv[p] |-> Activation(xv[p][lane])]]
    /\ pc' = [pc EXCEPT ![p] = "store"]
    /\ UNCHANGED <<x, n_elements, kind, approximation, axis_ld, BLOCK_SIZE, pids,
                   output, offsets, mask, xv, storeCount, oob, launch, prev_output,
                   prev_BLOCK>>

\* tl.store(output_ptr + offsets, output, mask=mask); the instance then ends
Store(p) ==
    /\ pc[p] = "store"
    /\ output' = masked_store(output, offsets[p], mask[p], ov[p])
    /\ storeCount' = [i \in DOMAIN storeCount |->
           storeCount[i]
             + Cardinality({lane \in Accessed(offsets[p], mask[p]) : offsets[p][lane] = i})]
    /\ oob' = oob \cup OutOfBounds(offsets[p], mask[p])
    /\ xv' = [xv EXCEPT ![p] = NoBlock]
    /\ ov' = [ov EXCEPT ![p] = NoBlock]
    /\ pc' = [pc EXCEPT ![p] = "done"]
    /\ x' = input_after_store(x, offsets[p], mask[p], ov[p])
    /\ UNCHANGED <<n_elements, kind, approximation, axis_ld, BLOCK_SIZE, pids,
                   offsets, mask, launch, prev_output, prev_BLOCK>>

AllDone == \A p \in pids : pc[p] = "done"

\* the host evaluates the same input again, into a fresh output buffer,
\* with a block width of its choice
Relaunch ==
    /\ AllDone
    /\ launch = 1
    /\ launch' = 2
    /\ prev_output' = output
    /\ prev_BLOCK' = BLOCK_SIZE
    /\ BLOCK_SIZE' \in BlockSizes
    /\ output' = Fresh(n_elements)
    /\ storeCount' = Zeros(n_elements)
    /\ LET P == 0..(NumUnits(n_elements, BLOCK_SIZE') - 1)
       IN  /\ pids' = P
           /\ pc' = [p \in P |-> "load"]
           /\ offsets' = [p \in P |-> NoBlock]
           /\ mask' = [p \in P |-> NoBlock]
           /\ xv' = [p \in P |-> NoBlock]
           /\ ov' = [p \in P |-> NoBlock]
    /\ UNCHANGED <<x, n_elements, kind, approximation, axis_ld, oob>>

Next ==
    \/ \E p \in pids : Load(p)
    \/ \E p \in pids : Compute(p)
    \/ \E p \in pids : Store(p)
    \/ Relaunch

Spec == Init /\ [][Next]_vars

\* ------------------------------------------------ an oversized grid
\* a launch whose grid is larger than ceil(N / BLOCK_SIZE): besides the
\* program ids of the dispatch loop, one further id of the grid runs
StrayPids(n, B) == NumUnits(n, B)..INT_MAX

InitOver ==
    /\ InitCommon({Ramp(n) : n \in 0..MaxShort})
    /\ \E s \in StrayPids(n_elements, BLOCK_SIZE) :
          Launched((0..(NumUnits(n_elements, BLOCK_SIZE) - 1)) \cup {s})

NextOver ==
    \/ \E p \in pids : Load(p)
    \/ \E p \in pids : Compute(p)
    \/ \E p \in pids : Store(p)

SpecOver == InitOver /\ [][NextOver]_vars

\* ================================================================ claims
Loaded(p) == pc[p] # "load"
Units == NumUnits(n_elements, BLOCK_SIZE)
\* some lane of the last block lies beyond the end of the buffer
Ragged == n_elements % BLOCK_SIZE # 0

\* C1: when every unit of the dispatch loop has run, every output index in
\* [0, N) has been stored to exactly once and holds a stored value, also
\* when N is not a multiple of the block width.
C1_EveryIndexStoredOnce ==
    AllDone => \A i \in Indices : storeCount[i] = 1 /\ output[i] # Uninit

C1_Witness ==
    /\ AllDone /\ Ragged /\ Cardinality(pids) >= 2
    /\ \A i \in Indices : storeCount[i] = 1

\* C2: no load and no store of an evaluation touches an index outside
\* [0, N): every lane whose mask is set has its offset inside the buffer.
C2_NoAccessOutsideBuffer ==
    /\ oob = {}
    /\ \A p \in pids : Loaded(p) =>
          \A lane \in DOMAIN offsets[p] : mask[p][lane] => InBounds(offsets[p][lane])

C2_Witness ==
    /\ AllDone /\ Ragged /\ n_elements >= 1 /\ oob = {}
    /\ \E p \in pids : \E lane \in DOMAIN mask[p] : ~mask[p][lane]

\* C3: the block ranges [pid*W, pid*W + W) of the units of the dispatch loop
\* are pairwise disjoint and jointly cover [0, N), and lane i of a unit is
\* valid iff pid*W + i < N.
C3_BlocksPartitionBuffer ==
    /\ \A p \in pids : Loaded(p) =>
          /\ DOMAIN offsets[p] = Lanes(BLOCK_SIZE)
          /\ \A lane \in Lanes(BLOCK_SIZE) :
                /\ offsets[p][lane] = p * BLOCK_SIZE + lane
                /\ mask[p][lane] <=> (p * BLOCK_SIZE + lane < n_elements)
    /\ \A p, q \in pids : (p # q /\ Loaded(p) /\ Loaded(q)) =>
          {offsets[p][l] : l \in DOMAIN offsets[p]}
             \cap {offsets[q][l] : l \in DOMAIN offsets[q]} = {}
    /\ AllDone =>
          Indices \subseteq UNION {{offsets[p][l] : l \in DOMAIN offsets[p]} : p \in pids}

C3_Witness ==
    /\ AllDone /\ Ragged /\ Cardinality(pids) >= 3
    /\ \E p \in pids : \E lane \in DOMAIN mask[p] : ~mask[p][lane]

\* C4: after a ReLU evaluation output[i] = max(0, input[i]) >= 0 for every
\* i in [0, N); input [-2, -1, 0, 1, 2] with block width 4 runs as two
\* units, the second with three masked lanes, and yields [0, 0, 0, 1, 2].
C4_ReluIsMaxZero ==
    (kind = "relu" /\ AllDone) =>
        /\ \A i \in Indices :
              /\ output[i] = Num(IF x[i][2] > 0 THEN x[i][2] ELSE 0)
              /\ output[i][2] >= 0
        /\ (x = Ramp(5) /\ BLOCK_SIZE = 4) =>
              /\ pids = {0, 1}
              /\ {lane \in Lanes(4) : ~mask[1][lane]} = {1, 2, 3}
              /\ output = [i \in 0..4 |-> Num(IF i <= 2 THEN 0 ELSE i - 2)]

C4_Witness ==
    /\ kind = "relu" /\ AllDone /\ BLOCK_SIZE = 4
    /\ x = [i \in 0..4 |-> Num(i - 2)]
    /\ output = [i \in 0..4 |-> Num(IF i <= 2 THEN 0 ELSE i - 2)]

\* C5: a unit whose id lies outside [0, ceil(N/W)) has every lane masked
\* off, touches no memory and leaves the output buffer as the units of the
\* dispatch loop wrote it, also when pid*W + lane wraps around.
C5_StrayUnitIsInert ==
    /\ oob = {}
    /\ \A i \in Indices : storeCount[i] <= 1
    /\ \A p \in pids : (p >= Units /\ Loaded(p)) =>
          \A lane \in DOMAIN mask[p] : ~mask[p][lane]

C7_BlockWidthIrrelevant ==
    (launch = 2 /\ AllDone) => output = prev_output

C7_Witness ==
    /\ launch = 2 /\ AllDone /\ prev_BLOCK # BLOCK_SIZE /\ n_elements >= 3
    /\ output = prev_output

\* C8: under every interleaving of the units' steps no output index is
\* stored to by two units, and repeating an evaluation (same input, same
\* block width) ends with the output of the first, whatever the two
\* interleavings were.
C8_DisjointStoresDeterministic ==
    /\ \A i \in Indices : storeCount[i] <= 1
    /\ (launch = 2 /\ AllDone /\ prev_BLOCK = BLOCK_SIZE) =>
          \A i \in Indices : output[i] = prev_output[i] /\ output[i] # Uninit

\* a second unit stores while the first still holds its loaded block
C8_Witness ==
    /\ launch = 2 /\ prev_BLOCK = BLOCK_SIZE /\ Cardinality(pids) >= 3
    /\ \E p, q \in pids : pc[p] = "done" /\ pc[q] = "compute" /\ q < p
    /\ \A i \in Indices : storeCount[i] <= 1

C10_InputNeverWritten == [][x' = x]_vars

C10_Witness ==
    /\ launch = 2 /\ AllDone /\ kind \in {"softmax", "gelu"} /\ x = Ramp(MaxN)
    /\ \A i \in Indices : output[i] # x[i]

====
